---- MODULE Spec2Model ----
(***************************************************************************)
(* Model of tacotron/models/tacotron.py: the Tacotron feature-prediction   *)
(* model object.  Four specifications share one set of variables:          *)
(*   Spec        the build lifecycle: initialize, add_loss, add_optimizer  *)
(*   SpecDecode  the decode loop started by initialize (dynamic_decode)    *)
(*   SpecGA      the guided-attention mask of add_loss                     *)
(*   SpecTrain   training iterations run through the optimize operation    *)
(***************************************************************************)
EXTENDS Integers, Sequences, FiniteSets, TLC

VARIABLES
    hp,         \* self._hparams, the hyper-parameters given to __init__
    fields,     \* the attributes of the Tacotron object set so far
    graph,      \* the graph components created so far
    call,       \* the last call made on the object and how it ended
    completed,  \* the build steps that have completed at least once
    decode,     \* the decode loop of dynamic_decode
    attn,       \* the guided-attention computation of add_loss
    train       \* the training iterations run through self.optimize

vars == <<hp, fields, graph, call, completed, decode, attn, train>>

\* ------------------------------------------------------------------ values

\* A value is the set of the names it is computed from, so that a sum records
\* its terms.
\* An attribute that was never assigned (reading it raises AttributeError).
Unset == {"unset"}
\* Python's None.
None == {"None"}
\* Any other tensor value.
Tensor == {"tensor"}

Idle == [phase |-> "idle"]

\* ------------------------------------------------------------- hparams

\* Hyper-parameters read by the three build steps.
BuildHParams ==
    [mask_decoder : BOOLEAN,
     tacotron_teacher_forcing_mode : {"constant", "scheduled", "other"},
     tacotron_decay_learning_rate : BOOLEAN]

\* ------------------------------------------------------------- initialize

\* The keyword arguments of initialize that decide its control flow.
InitializeArgs ==
    [lf0_targets : {None, Tensor},
     mgc_targets : {None, Tensor},
     bap_targets : {None, Tensor},
     stop_token_targets : {None, Tensor},
     targets_lengths : {None, Tensor},
     gta : BOOLEAN,
     global_step : {None, Tensor},
     is_training : BOOLEAN,
     is_evaluating : BOOLEAN]

NoArgs ==
    [lf0_targets |-> None, mgc_targets |-> None, bap_targets |-> None,
     stop_token_targets |-> None, targets_lengths |-> None, gta |-> FALSE,
     global_step |-> None, is_training |-> FALSE, is_evaluating |-> FALSE]

\* line 35
TokenTargetsWithoutLf0(a) ==
    a.lf0_targets = None /\ a.stop_token_targets # None

\* initialize without the check of line 37.
Mut_Lf0WithoutTokenTargets(a) == FALSE

\* line 37
Lf0WithoutTokenTargets(a) ==
    a.lf0_targets # None /\ a.stop_token_targets = None /\ ~a.gta

\* line 39
GtaWithMgcTargets(a) ==
    a.gta /\ a.mgc_targets # None

\* initialize without the check of line 41.
Mut_MaskWithoutLengths(h, a) == FALSE

\* line 41
MaskWithoutLengths(h, a) ==
    a.is_training /\ h.mask_decoder /\ a.targets_lengths = None

\* initialize without the check of line 43.
Mut_TrainingAndEvaluating(a) == FALSE

\* line 43
TrainingAndEvaluating(a) ==
    a.is_training /\ a.is_evaluating

\* lines 35-44: the first check that raises, or "ok".
Validate(h, a) ==
    IF TokenTargetsWithoutLf0(a) THEN "ValueError"
    ELSE IF Lf0WithoutTokenTargets(a) THEN "ValueError"
    ELSE IF GtaWithMgcTargets(a) THEN "ValueError"
    ELSE IF MaskWithoutLengths(h, a) THEN "RuntimeError"
    ELSE IF TrainingAndEvaluating(a) THEN "RuntimeError"
    ELSE "ok"

\* lines 50-52: the two assert statements.
Asserts(h, a) ==
    IF h.tacotron_teacher_forcing_mode \notin {"constant", "scheduled"}
        THEN "AssertionError"
    ELSE IF h.tacotron_teacher_forcing_mode = "scheduled" /\ a.is_training
            /\ a.global_step = None
        THEN "AssertionError"
    ELSE "ok"

\* lines 46 and 55-56: the scope is opened without reuse, so get_variable
\* raises when the graph already holds the variable.
GetVariable(g) ==
    IF "inputs_embedding" \in g THEN "ValueError" ELSE "ok"

\* lines 55-89: what exists in the graph once the decoder cell is built.
EncoderDecoderParts ==
    {"inputs_embedding", "encoder_cell", "prenet", "attention_mechanism",
     "decoder_lstm", "frame_projection", "stop_projection", "decoder_cell"}

\* lines 100-143: what the rest of initialize adds.
DecodeParts ==
    {"helper", "decoder_init_state", "dynamic_decode", "postnet",
     "residual_projection"}

\* line 93
UsesTargets(a) == a.is_training \/ a.is_evaluating \/ a.gta

\* line 94: tf.expand_dims raises ValueError on None, then tf.concat raises
\* TypeError on a list that holds None.
DecoderTargets(a) ==
    IF a.lf0_targets = None THEN "ValueError"
    ELSE IF a.mgc_targets = None \/ a.bap_targets = None THEN "TypeError"
    ELSE "ok"

\* lines 93-97
HelperFor(a) ==
    IF UsesTargets(a) THEN {"TacoTrainingHelper"} ELSE {"TacoTestHelper"}

\* Where initialize stops and with what: validation, asserts, variables,
\* helper, or done.
InitializeOutcome(h, a, g) ==
    IF Validate(h, a) # "ok"
        THEN [stage |-> "validation", result |-> Validate(h, a)]
    ELSE IF Asserts(h, a) # "ok"
        THEN [stage |-> "asserts", result |-> Asserts(h, a)]
    ELSE IF GetVariable(g) # "ok"
        THEN [stage |-> "variables", result |-> GetVariable(g)]
    ELSE IF UsesTargets(a) /\ DecoderTargets(a) # "ok"
        THEN [stage |-> "helper", result |-> DecoderTargets(a)]
    ELSE [stage |-> "done", result |-> "ok"]

FieldNames ==
    {"helper", "ratio", "decoder_outputs", "final_outputs", "alignments",
     "stop_token_outputs", "stop_token_targets", "lf0_targets", "mgc_targets",
     "bap_targets", "targets_lengths", "world_targets", "before_loss",
     "after_loss", "stop_token_loss", "regularization_loss", "attention_loss",
     "loss", "learning_rate", "gradients", "optimize"}

\* lines 15-16: __init__ assigns nothing but _hparams.
NoFields == [n \in FieldNames |-> Unset]

\* lines 95-97 and 145-160: the assignments of a completed initialize.
InitializeFields(f, a) ==
    [f EXCEPT
        !["helper"] = HelperFor(a),
        !["ratio"] = IF a.is_training THEN Tensor ELSE f["ratio"],
        !["decoder_outputs"] = Tensor,
        !["final_outputs"] = Tensor,
        !["alignments"] = Tensor,
        !["stop_token_outputs"] = Tensor,
        !["stop_token_targets"] = a.stop_token_targets,
        !["lf0_targets"] = a.lf0_targets,
        !["mgc_targets"] = a.mgc_targets,
        !["bap_targets"] = a.bap_targets,
        !["targets_lengths"] = a.targets_lengths]

\* A raised exception is not caught by the model object: it ends the build,
\* and no later call is made on the object (lines 36-44, the raise statements).
Running == call.result = "ok"

\* lines 19-176
Initialize(a) ==
    LET out == InitializeOutcome(hp, a, graph) IN
    /\ Running
    /\ call' = [op |-> "initialize", args |-> a, stage |-> out.stage,
                result |-> out.result]
    /\ graph' = CASE out.stage = "helper" -> graph \cup EncoderDecoderParts
                  [] out.stage = "done" ->
                        graph \cup EncoderDecoderParts \cup DecodeParts
                  [] OTHER -> graph
    /\ fields' = IF out.stage = "done" THEN InitializeFields(fields, a)
                 ELSE fields
    /\ completed' = IF out.stage = "done"
                    THEN completed \cup
                         {"initialize"} \cup
                         (IF a.lf0_targets # None /\ a.stop_token_targets # None
                          THEN {"initialize_with_targets"} ELSE {})
                    ELSE completed
    /\ UNCHANGED <<hp, decode, attn, train>>

\* ------------------------------------------------------------- add_loss

\* The five terms of line 224.
LossTerms ==
    {"before_loss", "after_loss", "stop_token_loss", "regularization_loss",
     "attention_loss"}

\* line 183: reading an attribute initialize never set raises AttributeError;
\* tf.expand_dims raises ValueError on None, tf.concat TypeError.
WorldTargets(f) ==
    IF f["lf0_targets"] = Unset THEN "AttributeError"
    ELSE IF f["lf0_targets"] = None THEN "ValueError"
    ELSE IF f["mgc_targets"] = None \/ f["bap_targets"] = None
        THEN "TypeError"
    ELSE "ok"

\* lines 187-192: the masked losses build a sequence mask from
\* targets_lengths and compare with stop_token_targets; None raises.
MaskedLosses(f) ==
    IF f["targets_lengths"] = None \/ f["stop_token_targets"] = None
        THEN "ValueError"
    ELSE "ok"

\* lines 196-210: the unmasked branch; the cross-entropy raises on None labels.
UnmaskedLosses(f) ==
    IF f["stop_token_targets"] = None THEN "ValueError" ELSE "ok"

\* lines 185-210: the names the branch taken binds.
BoundLosses(h) ==
    IF h.mask_decoder
        THEN {"before_loss", "after_loss", "stop_token_loss"}
    ELSE {"attention_loss", "before_loss", "after_loss", "stop_token_loss"}

\* Where add_loss stops and with what.
AddLossOutcome(h, f) ==
    IF WorldTargets(f) # "ok"
        THEN [stage |-> "world_targets", result |-> WorldTargets(f)]
    ELSE IF h.mask_decoder /\ MaskedLosses(f) # "ok"
        THEN [stage |-> "losses", result |-> MaskedLosses(f)]
    ELSE IF ~h.mask_decoder /\ UnmaskedLosses(f) # "ok"
        THEN [stage |-> "losses", result |-> UnmaskedLosses(f)]
    ELSE IF "attention_loss" \notin BoundLosses(h)
        \* line 222 reads a local name the masked branch never bound
        THEN [stage |-> "attention_loss", result |-> "UnboundLocalError"]
    ELSE [stage |-> "done", result |-> "ok"]

\* lines 183 and 218-224: the assignments made up to the stage reached.
AddLossFields(f, stage) ==
    LET f1 == IF stage = "world_targets" THEN f
              ELSE [f EXCEPT !["world_targets"] = Tensor]
        f2 == IF stage \in {"attention_loss", "done"}
              THEN [f1 EXCEPT !["before_loss"] = Tensor,
                              !["after_loss"] = Tensor,
                              !["stop_token_loss"] = Tensor,
                              !["regularization_loss"] = Tensor]
              ELSE f1
    IN  IF stage = "done"
        THEN [f2 EXCEPT !["attention_loss"] = Tensor, !["loss"] = LossTerms]
        ELSE f2

\* lines 179-224
AddLoss ==
    LET out == AddLossOutcome(hp, fields) IN
    /\ Running
    /\ call' = [op |-> "add_loss", args |-> NoArgs, stage |-> out.stage,
                result |-> out.result]
    /\ fields' = AddLossFields(fields, out.stage)
    /\ completed' = IF out.stage = "done" THEN completed \cup {"add_loss"}
                    ELSE completed
    /\ UNCHANGED <<hp, graph, decode, attn, train>>

\* ------------------------------------------------------------- add_optimizer

\* lines 234-239 and 275: with decay on, global_step - start_decay raises on
\* None.
LearningRate(h, gs) ==
    IF h.tacotron_decay_learning_rate
        THEN IF gs = None THEN "TypeError" ELSE "ok"
    ELSE "ok"

\* add_optimizer that does not need self.loss.
Mut_LossAvailable(f) == "ok"

\* line 243: compute_gradients reads self.loss.
LossAvailable(f) ==
    IF f["loss"] = Unset THEN "AttributeError" ELSE "ok"

\* Where add_optimizer stops and with what.
AddOptimizerOutcome(h, f, gs) ==
    IF LearningRate(h, gs) # "ok"
        THEN [stage |-> "learning_rate", result |-> LearningRate(h, gs)]
    ELSE IF LossAvailable(f) # "ok"
        THEN [stage |-> "gradients", result |-> LossAvailable(f)]
    ELSE [stage |-> "done", result |-> "ok"]

\* lines 237-256: the assignments made up to the stage reached.
AddOptimizerFields(f, stage) ==
    LET f1 == IF stage = "learning_rate" THEN f
              ELSE [f EXCEPT !["learning_rate"] = Tensor]
    IN  IF stage = "done"
        THEN [f1 EXCEPT !["gradients"] = Tensor, !["optimize"] = Tensor]
        ELSE f1

\* lines 226-256
AddOptimizer(gs) ==
    LET out == AddOptimizerOutcome(hp, fields, gs) IN
    /\ Running
    /\ call' = [op |-> "add_optimizer",
                args |-> [NoArgs EXCEPT !.global_step = gs],
                stage |-> out.stage, result |-> out.result]
    /\ fields' = AddOptimizerFields(fields, out.stage)
    /\ completed' = IF out.stage = "done" THEN completed \cup {"add_optimizer"}
                    ELSE completed
    /\ UNCHANGED <<hp, graph, decode, attn, train>>

\* ------------------------------------------------------------- Spec

\* lines 15-16
Init ==
    /\ hp \in BuildHParams
    /\ fields = NoFields
    /\ graph = {}
    /\ call = [op |-> "__init__", args |-> NoArgs, stage |-> "done",
               result |-> "ok"]
    /\ completed = {}
    /\ decode = Idle
    /\ attn = Idle
    /\ train = Idle

Next ==
    \/ \E a \in InitializeArgs : Initialize(a)
    \/ AddLoss
    \/ \E gs \in {None, Tensor} : AddOptimizer(gs)

Spec == Init /\ [][Next]_vars

\* ------------------------------------------------------------- decode loop

\* Largest hparams.max_iters drawn.
MaxIters == 3
\* Largest number of decoder steps the targets of a batch provide.
MaxTargetSteps == 4
\* Number of examples in a batch.
BatchSize == 2

Batch == 1..BatchSize

\* A loop that nothing stops is followed this far.
DecodeCap == MaxIters + MaxTargetSteps + 1

\* maximum_iterations=None of line 104.
NoMaxIters == -1

\* line 104 passing no limit in any mode.
Mut_MaxItersFor(h, a) == NoMaxIters

\* line 104
MaxItersFor(h, a) ==
    IF ~(a.is_training \/ a.is_evaluating) THEN h.max_iters ELSE NoMaxIters

\* The mode flags with which some initialize call reaches line 100.
DecodeModes ==
    {m \in [is_training : BOOLEAN, is_evaluating : BOOLEAN, gta : BOOLEAN] :
        \E h \in BuildHParams : \E a \in InitializeArgs :
            /\ a.is_training = m.is_training
            /\ a.is_evaluating = m.is_evaluating
            /\ a.gta = m.gta
            /\ InitializeOutcome(h, a, {}).stage = "done"}

\* TacoTrainingHelper: finished once the targets are exhausted.
TrainingHelperFinished(time, target_steps) == time + 1 >= target_steps

\* TacoTestHelper: finished once the stop token of every batch element crossed
\* the threshold.
TestHelperFinished(stop) == \A b \in Batch : stop[b]

\* lines 107-111, the body and the condition of the loop of dynamic_decode:
\* one decoder-cell iteration; the loop ends when the helper reports
\* finished or when maximum_iterations steps were made.
DecodeStep ==
    /\ decode.phase = "decoding"
    /\ ~decode.finished
    /\ decode.time < DecodeCap
    /\ \E stop \in [Batch -> BOOLEAN] :
        LET byHelper ==
                IF decode.helper = {"TacoTrainingHelper"}
                THEN TrainingHelperFinished(decode.time, decode.target_steps)
                ELSE TestHelperFinished(stop)
            byLimit ==
                /\ decode.maximum_iterations # NoMaxIters
                /\ decode.time + 1 >= decode.maximum_iterations
        IN  decode' = [decode EXCEPT
                !.time = @ + 1,
                !.stop = IF decode.helper = {"TacoTrainingHelper"}
                         THEN decode.stop ELSE stop,
                !.helper_finished = byHelper,
                !.finished = byHelper \/ byLimit]
    /\ UNCHANGED <<hp, fields, graph, call, completed, attn, train>>

\* lines 107-116: the loop has ended and its outputs are reshaped.
DecodeEnd ==
    /\ decode.phase = "decoding"
    /\ decode.finished
    /\ decode' = [decode EXCEPT !.phase = "done"]
    /\ UNCHANGED <<hp, fields, graph, call, completed, attn, train>>

\* lines 93-104: initialize has chosen the helper and maximum_iterations and
\* enters dynamic_decode.
InitDecode ==
    /\ hp \in [max_iters : 1..MaxIters]
    /\ \E m \in DecodeModes, n \in 1..MaxTargetSteps :
        decode = [phase |-> "decoding",
                  mode |-> m,
                  helper |-> HelperFor(m),
                  maximum_iterations |-> MaxItersFor(hp, m),
                  target_steps |-> n,
                  time |-> 0,
                  stop |-> [b \in Batch |-> FALSE],
                  helper_finished |-> FALSE,
                  finished |-> FALSE]
    /\ fields = NoFields
    /\ graph = EncoderDecoderParts
    /\ call = [op |-> "initialize", args |-> NoArgs, stage |-> "decode",
               result |-> "ok"]
    /\ completed = {}
    /\ attn = Idle
    /\ train = Idle

NextDecode ==
    \/ DecodeStep
    \/ DecodeEnd

SpecDecode == InitDecode /\ [][NextDecode]_vars

\* C7: in free synthesis the loop makes at most hparams.max_iters
\* iterations, and exactly that many when the helper never reports the stop
\* token crossed for all batch elements; maximum_iterations is set exactly
\* when neither is_training nor is_evaluating is, so a training or evaluating
\* decode runs until its targets are exhausted.
C7_SynthesisDecodeCapped ==
    LET synth == ~(decode.mode.is_training \/ decode.mode.is_evaluating) IN
    /\ synth => decode.time <= hp.max_iters
    /\ (synth /\ decode.time = hp.max_iters) => decode.finished
    /\ (synth /\ decode.finished /\ ~decode.helper_finished)
        => decode.time = hp.max_iters
    /\ (decode.maximum_iterations # NoMaxIters) <=> synth
    /\ (~synth /\ decode.finished) => decode.time = decode.target_steps
    /\ (~decode.finished /\ decode.phase = "decoding") => ENABLED DecodeStep

C7_Witness ==
    /\ ~(decode.mode.is_training \/ decode.mode.is_evaluating \/ decode.mode.gta)
    /\ decode.phase = "done"
    /\ ~decode.helper_finished
    /\ hp.max_iters > 1
    /\ decode.time = hp.max_iters

\* ------------------------------------------------------------- training

\* Largest learning rate drawn, in units of the smallest one.
MaxRate == 3
\* Largest tacotron_start_decay drawn.
MaxStartDecay == 2
\* Largest denominator of the per-step decay factor drawn.
MaxDen == 2
\* Number of training iterations followed.
MaxSteps == 4
\* Number of operations in the UPDATE_OPS collection.
NumUpdateOps == 2

\* line 254: tf.get_collection(tf.GraphKeys.UPDATE_OPS)
UPDATE_OPS == {<<"update_op", i>> : i \in 1..NumUpdateOps}

\* line 255: the operation optimizer.apply_gradients returns.
apply_gradients == <<"apply_gradients", 0>>

\* Rates are exact fractions <<numerator, denominator>>, denominator > 0.
Rat(n) == <<n, 1>>
RatLeq(a, b) == a[1] * b[2] <= b[1] * a[2]
RatLess(a, b) == a[1] * b[2] < b[1] * a[2]
RatEq(a, b) == a[1] * b[2] = b[1] * a[2]

RECURSIVE Pow(_, _)
Pow(b, e) == IF e = 0 THEN 1 ELSE b * Pow(b, e - 1)

\* tf.maximum and tf.minimum of line 282.
Maximum(a, b) == IF RatLeq(a, b) THEN b ELSE a
Minimum(a, b) == IF RatLeq(a, b) THEN a ELSE b

\* Hyper-parameters read by add_optimizer and _learning_rate_decay.  The decay
\* is given by decay_root = decay_rate ^ (1 / decay_steps), a fraction in
\* (0, 1], so that decay_rate ^ (p / decay_steps) = decay_root ^ p is exact.
TrainHParams ==
    [tacotron_decay_learning_rate : BOOLEAN,
     tacotron_initial_learning_rate : 1..MaxRate,
     tacotron_final_learning_rate : 1..MaxRate,
     tacotron_start_decay : 0..MaxStartDecay,
     decay_root : {r \in (1..MaxDen) \X (1..MaxDen) : r[1] <= r[2]}]

\* lines 274-278: tf.train.exponential_decay without staircase,
\* init_lr * decay_rate ^ (p / decay_steps), p = global_step - start_decay.
ExponentialDecay(init_lr, p, root) ==
    IF p >= 0
    THEN <<init_lr * Pow(root[1], p), Pow(root[2], p)>>
    ELSE <<init_lr * Pow(root[2], 0 - p), Pow(root[1], 0 - p)>>

\* line 282 without the clip from above by init_lr.
Mut_LearningRateDecay(h, init_lr, global_step) ==
    Maximum(ExponentialDecay(init_lr, global_step - h.tacotron_start_decay,
                             h.decay_root),
            Rat(h.tacotron_final_learning_rate))

\* lines 258-282
LearningRateDecay(h, init_lr, global_step) ==
    LET lr == ExponentialDecay(init_lr, global_step - h.tacotron_start_decay,
                               h.decay_root)
    IN  Minimum(Maximum(lr, Rat(h.tacotron_final_learning_rate)), Rat(init_lr))

\* lines 234-239: the value of self.learning_rate at a global step.
LearningRateAt(h, global_step) ==
    IF h.tacotron_decay_learning_rate
    THEN LearningRateDecay(h, h.tacotron_initial_learning_rate, global_step)
    ELSE Rat(h.tacotron_initial_learning_rate)

\* Range of a sequence.
Executed(log) == {log[i] : i \in DOMAIN log}

\* apply_gradients created outside the control_dependencies block.
Mut_ControlDependenciesMet(log) == TRUE

\* line 254: apply_gradients is created under control_dependencies on every
\* operation of UPDATE_OPS, so it runs once all of them have run.
ControlDependenciesMet(log) == UPDATE_OPS \subseteq Executed(log)

\* A run of self.optimize starts: nothing of the iteration has executed.
StartIteration ==
    /\ train.phase = "idle"
    /\ train.global_step < MaxSteps
    /\ train' = [train EXCEPT !.phase = "running", !.log = <<>>]
    /\ UNCHANGED <<hp, fields, graph, call, completed, decode, attn>>

\* One operation of UPDATE_OPS executes; the engine orders them freely.
RunUpdateOp(u) ==
    /\ train.phase = "running"
    /\ u \notin Executed(train.log)
    /\ train' = [train EXCEPT !.log = Append(@, u)]
    /\ UNCHANGED <<hp, fields, graph, call, completed, decode, attn>>

\* lines 241-256: the update is applied with the learning rate of the
\* current global step, and global_step advances.
ApplyGradients ==
    /\ train.phase = "running"
    /\ apply_gradients \notin Executed(train.log)
    /\ ControlDependenciesMet(train.log)
    /\ train' = [train EXCEPT
            !.log = Append(@, apply_gradients),
            !.learning_rate = LearningRateAt(hp, train.global_step),
            !.lr_step = train.global_step,
            !.global_step = @ + 1]
    /\ UNCHANGED <<hp, fields, graph, call, completed, decode, attn>>

\* The run of self.optimize returns.
EndIteration ==
    /\ train.phase = "running"
    /\ apply_gradients \in Executed(train.log)
    /\ train' = [train EXCEPT !.phase = "idle"]
    /\ UNCHANGED <<hp, fields, graph, call, completed, decode, attn>>

\* lines 226-256: add_optimizer has completed; global_step starts at 0.
InitTrain ==
    /\ hp \in TrainHParams
    /\ train = [phase |-> "idle", log |-> <<>>, global_step |-> 0,
                lr_step |-> 0, learning_rate |-> LearningRateAt(hp, 0)]
    /\ fields = [NoFields EXCEPT !["loss"] = LossTerms,
                                 !["learning_rate"] = Tensor,
                                 !["gradients"] = Tensor,
                                 !["optimize"] = Tensor]
    /\ graph = EncoderDecoderParts \cup DecodeParts
    /\ call = [op |-> "add_optimizer", args |-> NoArgs, stage |-> "done",
               result |-> "ok"]
    /\ completed = {"initialize", "initialize_with_targets", "add_loss",
                    "add_optimizer"}
    /\ decode = Idle
    /\ attn = Idle

NextTrain ==
    \/ StartIteration
    \/ \E u \in UPDATE_OPS : RunUpdateOp(u)
    \/ ApplyGradients
    \/ EndIteration

SpecTrain == InitTrain /\ [][NextTrain]_vars

\* C6: with decay on and final rate <= initial rate, the learning rate
\* equals the initial rate at every step up to tacotron_start_decay, never
\* increases from one step to a later one, stays between the final and the
\* initial rate, and is the final rate wherever the decayed value is below
\* it; the rate an iteration applies is that value at its global step.
C6_LearningRateSchedule ==
    (/\ hp.tacotron_decay_learning_rate
     /\ hp.tacotron_final_learning_rate <= hp.tacotron_initial_learning_rate)
    => LET init == hp.tacotron_initial_learning_rate
           floor == Rat(hp.tacotron_final_learning_rate)
           rate(s) == LearningRateDecay(hp, init, s)
           decayed(s) == ExponentialDecay(init, s - hp.tacotron_start_decay,
                                          hp.decay_root)
       IN  /\ \A s \in 0..train.global_step :
                /\ (s <= hp.tacotron_start_decay => RatEq(rate(s), Rat(init)))
                /\ RatLeq(floor, rate(s))
                /\ RatLeq(rate(s), Rat(init))
                /\ (RatLess(decayed(s), floor) => RatEq(rate(s), floor))
                /\ \A s2 \in s..train.global_step : RatLeq(rate(s2), rate(s))
           /\ train.learning_rate = rate(train.lr_step)

C6_Witness ==
    /\ hp.tacotron_decay_learning_rate
    /\ train.lr_step > hp.tacotron_start_decay
    /\ hp.tacotron_start_decay > 0
    /\ RatLess(Rat(hp.tacotron_final_learning_rate), train.learning_rate)
    /\ RatLess(train.learning_rate, Rat(hp.tacotron_initial_learning_rate))
    /\ apply_gradients \in Executed(train.log)

\* C8: in every iteration apply_gradients executes after every operation of
\* UPDATE_OPS has executed in that iteration, and global_step counts the
\* iterations whose update was applied.
C8_ApplyAfterUpdateOps ==
    /\ \A i \in DOMAIN train.log :
        train.log[i] = apply_gradients
            => UPDATE_OPS \subseteq {train.log[j] : j \in 1..(i - 1)}
    /\ train.phase = "idle" =>
        (train.global_step = 0 \/ UPDATE_OPS \subseteq Executed(train.log))

C8_Witness ==
    /\ train.phase = "running"
    /\ Len(train.log) = NumUpdateOps + 1
    /\ train.log[Len(train.log)] = apply_gradients
    /\ train.global_step > 1

\* ------------------------------------------------------------- guided attention

\* Longest input sequence of a batch.
MaxInputLen == 2
\* Largest number of decoder steps of a batch.
MaxDecSteps == 2
\* Largest hparams.max_text_length and hparams.max_frame_num drawn.
MaxTextLength == 3
MaxFrameNum == 3

\* constant_values=-1. of line 198.
PadValue == -1

\* Hyper-parameters read by the loss branches of add_loss.
LossHParams ==
    [mask_decoder : BOOLEAN,
     max_text_length : 1..MaxTextLength,
     max_frame_num : 1..MaxFrameNum]

\* The encoder outputs are padded to the longest input of the batch.
EncoderSteps(input_lengths) ==
    CHOOSE n \in 1..MaxInputLen :
        /\ \E b \in Batch : input_lengths[b] = n
        /\ \A b \in Batch : input_lengths[b] <= n

\* line 143: the alignment history, [batch, encoder steps, decoder steps].
\* Each decoder step holds a distribution over the encoder positions of the
\* example: here weight 1 on one position inside its true length, 0 on the
\* others and on the padding positions.
Alignments(input_lengths, dec_steps, shift) ==
    [b \in Batch |->
        [i \in 0..EncoderSteps(input_lengths) - 1 |->
            [j \in 0..dec_steps - 1 |->
                IF i = (j + shift[b]) % input_lengths[b] THEN 1 ELSE 0]]]

\* tf.pad with a pad value an alignment can take.
Mut_PadAlignments(al, enc, dec, N, T) ==
    [b \in Batch |->
        [i \in 0..enc + N - 1 |->
            [j \in 0..dec + T - 1 |->
                IF i < enc /\ j < dec THEN al[b][i][j] ELSE 0]]]

\* line 198, tf.pad: N rows and T columns of PadValue are appended.
PadAlignments(al, enc, dec, N, T) ==
    [b \in Batch |->
        [i \in 0..enc + N - 1 |->
            [j \in 0..dec + T - 1 |->
                IF i < enc /\ j < dec THEN al[b][i][j] ELSE PadValue]]]

\* line 198, the slice [:, :N, :T].
Truncate(padded, N, T) ==
    [b \in Batch |-> [i \in 0..N - 1 |-> [j \in 0..T - 1 |-> padded[b][i][j]]]]

\* line 200
AttentionMasks(A, N, T) ==
    [b \in Batch |->
        [i \in 0..N - 1 |->
            [j \in 0..T - 1 |-> IF A[b][i][j] # PadValue THEN 1 ELSE 0]]]

\* lines 201-202: the entries whose term of the sum is not multiplied by 0,
\* and the divisor tf.reduce_sum(attention_masks).
AttentionLoss(masks, N, T) ==
    LET ones == {e \in Batch \X (0..N - 1) \X (0..T - 1) :
                    masks[e[1]][e[2]][e[3]] = 1}
    IN  [terms |-> ones, count |-> Cardinality(ones)]

\* lines 194-202: the branch taken when mask_decoder is off.
AddLossUnmasked ==
    /\ attn.phase = "built"
    /\ ~hp.mask_decoder
    /\ LET N == hp.max_text_length
           T == hp.max_frame_num
           enc == EncoderSteps(attn.input_lengths)
           A == Truncate(PadAlignments(attn.alignments, enc, attn.dec_steps,
                                       N, T), N, T)
           masks == AttentionMasks(A, N, T)
       IN  attn' = [attn EXCEPT
                !.phase = "done",
                !.A = A,
                !.attention_masks = masks,
                !.attention_loss = AttentionLoss(masks, N, T)]
    /\ UNCHANGED <<hp, fields, graph, call, completed, decode, train>>

\* lines 185-192: the branch taken when mask_decoder is on binds no
\* attention_loss.
AddLossMasked ==
    /\ attn.phase = "built"
    /\ hp.mask_decoder
    /\ attn' = [attn EXCEPT !.phase = "done"]
    /\ UNCHANGED <<hp, fields, graph, call, completed, decode, train>>

\* lines 143-160: initialize has completed on a batch; add_loss is called.
InitGA ==
    /\ hp \in LossHParams
    /\ \E lens \in [Batch -> 1..MaxInputLen], steps \in 1..MaxDecSteps :
       \E shift \in [Batch -> 0..MaxInputLen - 1] :
        /\ \A b \in Batch : shift[b] < lens[b]
        /\ attn = [phase |-> "built",
                   input_lengths |-> lens,
                   dec_steps |-> steps,
                   alignments |-> Alignments(lens, steps, shift),
                   A |-> Unset,
                   attention_masks |-> Unset,
                   attention_loss |-> Unset]
    /\ fields = [InitializeFields(NoFields,
                    [NoArgs EXCEPT !.lf0_targets = Tensor,
                                   !.mgc_targets = Tensor,
                                   !.bap_targets = Tensor,
                                   !.stop_token_targets = Tensor,
                                   !.targets_lengths = Tensor])
                 EXCEPT !["world_targets"] = Tensor]
    /\ graph = EncoderDecoderParts \cup DecodeParts
    /\ call = [op |-> "add_loss", args |-> NoArgs, stage |-> "losses",
               result |-> "ok"]
    /\ completed = {"initialize", "initialize_with_targets"}
    /\ decode = Idle
    /\ train = Idle

NextGA ==
    \/ AddLossUnmasked
    \/ AddLossMasked

SpecGA == InitGA /\ [][NextGA]_vars

\* The entries of the N x T template.
Template == Batch \X (0..hp.max_text_length - 1) \X (0..hp.max_frame_num - 1)

\* C9 as stated: with mask_decoder off, an entry of the template counts in
\* the mask exactly when its encoder position is below the true input length
\* of its example and its decoder position is within the decoded steps.
C9_MaskMarksValidEntriesOfExample ==
    (attn.phase = "done" /\ ~hp.mask_decoder)
    => \A e \in Template :
        (attn.attention_masks[e[1]][e[2]][e[3]] = 1)
            <=> (e[2] < attn.input_lengths[e[1]] /\ e[3] < attn.dec_steps)

\* C9 amended: attention_loss is computed only with mask_decoder off; an
\* entry of the template counts in the sum and in the divisor exactly when it
\* lies inside the alignment tensor of the batch (encoder position below the
\* longest input of the batch, decoder position below the decoded steps),
\* which includes the encoder padding of shorter examples; no alignment value
\* equals the pad value, and the divisor is not zero.
C9_MaskMarksAlignmentTensor ==
    attn.phase = "done"
    => /\ hp.mask_decoder => attn.attention_loss = Unset
       /\ ~hp.mask_decoder =>
            /\ \A e \in Template :
                /\ (attn.attention_masks[e[1]][e[2]][e[3]] = 1)
                    <=> (/\ e[2] < EncoderSteps(attn.input_lengths)
                         /\ e[3] < attn.dec_steps)
                /\ (e \in attn.attention_loss.terms)
                    <=> (attn.attention_masks[e[1]][e[2]][e[3]] = 1)
            /\ attn.attention_loss.count
                    = Cardinality(attn.attention_loss.terms)
            /\ attn.attention_loss.count > 0
            /\ \A b \in Batch :
               \A i \in 0..EncoderSteps(attn.input_lengths) - 1 :
               \A j \in 0..attn.dec_steps - 1 :
                    attn.alignments[b][i][j] # PadValue

C9_Witness ==
    /\ attn.phase = "done"
    /\ ~hp.mask_decoder
    /\ \E b \in Batch : attn.input_lengths[b] < EncoderSteps(attn.input_lengths)
    /\ hp.max_text_length > EncoderSteps(attn.input_lengths)
    /\ hp.max_frame_num > attn.dec_steps
    /\ attn.attention_loss.count < Cardinality(Template)

\* ------------------------------------------------------------- build claims

\* ValueError and RuntimeError are what the checks of lines 35-44 raise.
ConfigurationErrors == {"ValueError", "RuntimeError"}

\* The number of mode flags an initialize call sets.
ModeFlags(a) ==
    Cardinality({m \in {"is_training", "is_evaluating", "gta"} : a[m]})

\* C1: every initialize call with gta false, lf0 targets supplied and
\* stop_token_targets absent raises a configuration error during validation:
\* the call creates nothing in the graph and assigns no field, whatever the
\* other arguments and the hparams are.
C1_AcousticWithoutStopTokenFailsFirst ==
    [][(/\ call'.op = "initialize"
        /\ ~call'.args.gta
        /\ call'.args.lf0_targets # None
        /\ call'.args.stop_token_targets = None)
       => (/\ call'.result = "ValueError"
           /\ call'.stage = "validation"
           /\ graph' = graph
           /\ fields' = fields)]_vars

C1_Witness ==
    /\ call.op = "initialize"
    /\ ~call.args.gta /\ call.args.is_training
    /\ call.args.lf0_targets # None /\ call.args.mgc_targets # None
    /\ call.args.stop_token_targets = None
    /\ call.result = "ValueError"
    /\ graph = {}

\* C2 as stated: with mask_decoder on and no targets_lengths, initialize
\* fails in every mode.
C2_MaskWithoutLengthsFailsInEveryMode ==
    (/\ call.op = "initialize"
     /\ hp.mask_decoder
     /\ call.args.targets_lengths = None)
    => call.result # "ok"

\* C2 amended: with is_training set, mask_decoder on and no targets_lengths,
\* initialize raises a configuration error during validation, before the call
\* builds anything.
C2_TrainingMaskWithoutLengthsFails ==
    (/\ call.op = "initialize"
     /\ call.args.is_training
     /\ hp.mask_decoder
     /\ call.args.targets_lengths = None)
    => (/\ call.result \in ConfigurationErrors
        /\ call.stage = "validation")

C2_Witness ==
    /\ call.op = "initialize"
    /\ call.args.is_training /\ ~call.args.is_evaluating /\ ~call.args.gta
    /\ hp.mask_decoder
    /\ call.args.targets_lengths = None
    /\ call.args.lf0_targets # None /\ call.args.stop_token_targets # None
    /\ call.result = "RuntimeError"

\* C3: no initialize call that sets more than one of is_training,
\* is_evaluating and gta completes; is_training with is_evaluating always
\* ends in a configuration error; so a completed build has at most one flag
\* set, which names its mode (none set: free synthesis).
C3_ModesMutuallyExclusive ==
    /\ (call.op = "initialize" /\ ModeFlags(call.args) > 1)
        => call.result # "ok"
    /\ (call.op = "initialize" /\ call.args.is_training
            /\ call.args.is_evaluating)
        => (call.result \in ConfigurationErrors /\ call.stage = "validation")
    /\ (call.op = "initialize" /\ call.result = "ok")
        => fields["helper"] =
              (IF ModeFlags(call.args) = 1 THEN {"TacoTrainingHelper"}
               ELSE {"TacoTestHelper"})

C3_Witness ==
    /\ call.op = "initialize"
    /\ call.args.is_training /\ call.args.is_evaluating
    /\ call.args.lf0_targets # None /\ call.args.mgc_targets # None
    /\ call.args.bap_targets # None /\ call.args.stop_token_targets # None
    /\ call.args.targets_lengths # None
    /\ call.result = "RuntimeError"

\* C4 as stated: an initialize call in ground-truth-aligned mode (gta alone)
\* that supplies lf0 and bap targets and no stop-token targets, and is not
\* stopped by an assert or an existing variable, completes and installs
\* TacoTrainingHelper (with mgc targets supplied or not).
C4_GtaBuildInstallsTrainingHelper ==
    (/\ call.op = "initialize"
     /\ call.args.gta /\ ~call.args.is_training /\ ~call.args.is_evaluating
     /\ call.args.lf0_targets # None
     /\ call.args.bap_targets # None
     /\ call.args.stop_token_targets = None
     /\ call.stage \notin {"asserts", "variables"})
    => (call.result = "ok" /\ fields["helper"] = {"TacoTrainingHelper"})

\* C5 as stated: after a training or evaluating initialize that completed
\* with all targets and targets_lengths, add_loss completes; loss is the sum
\* of the four terms without attention_loss when mask_decoder is on, and of
\* all five when it is off.
C5_LossIsSumOfActiveTerms ==
    (/\ call.op = "add_loss"
     /\ fields["helper"] = {"TacoTrainingHelper"}
     /\ fields["lf0_targets"] = Tensor /\ fields["mgc_targets"] = Tensor
     /\ fields["bap_targets"] = Tensor
     /\ fields["stop_token_targets"] = Tensor
     /\ fields["targets_lengths"] = Tensor)
    => (/\ call.result = "ok"
        /\ fields["loss"] = (IF hp.mask_decoder
                             THEN LossTerms \ {"attention_loss"}
                             ELSE LossTerms)
        /\ \A t \in LossTerms \ {"attention_loss"} : fields[t] # Unset)

\* C10: loss is set only once an initialize with lf0 and stop-token targets
\* and an add_loss have completed; gradients and optimize only once add_loss
\* and add_optimizer have completed; add_loss without such an initialize, and
\* add_optimizer without a completed add_loss, raise and leave loss,
\* gradients and optimize unset.
C10_BuildOrder ==
    /\ fields["loss"] # Unset
        => {"initialize_with_targets", "add_loss"} \subseteq completed
    /\ (fields["optimize"] # Unset \/ fields["gradients"] # Unset)
        => (/\ {"add_loss", "add_optimizer"} \subseteq completed
            /\ fields["loss"] # Unset
            /\ fields["learning_rate"] # Unset)
    /\ "add_loss" \in completed => "initialize_with_targets" \in completed
    /\ "add_optimizer" \in completed => "add_loss" \in completed
    /\ (call.op = "add_loss" /\ "initialize_with_targets" \notin completed)
        => (call.result # "ok" /\ fields["loss"] = Unset)
    /\ (call.op = "add_optimizer" /\ "add_loss" \notin completed)
        => (/\ call.result # "ok"
            /\ fields["optimize"] = Unset /\ fields["gradients"] = Unset)

C10_Witness ==
    /\ call.op = "add_optimizer"
    /\ call.result = "ok"
    /\ fields["loss"] = LossTerms
    /\ fields["optimize"] = Tensor

====
